---- MODULE Spec2Model ----
(***************************************************************************)
(* A model of SS-SEND (src/app.py): the Streamlit form handler main(),     *)
(* the backup writer save_uploaded_files, the image-host upload helpers,   *)
(* the Mailgun client send_via_mailgun and the Cloudinary signature        *)
(* routine.                                                                *)
(*                                                                         *)
(* Strings are sequences of one-character strings, so that basename,       *)
(* replace, join and sort are computed character by character.  User       *)
(* messages are sequences of text fragments (the pieces of the f-string).  *)
(***************************************************************************)
EXTENDS Integers, Sequences, FiniteSets, TLC

\* ------------------------------------------------------------------ bounds
MaxFiles == 2        \* uploaded files per submission (workflow)
MaxNameLen == 4      \* characters of an uploaded filename (backup writer)
MaxParams == 2       \* entries of a signature parameter mapping

\* --------------------------------------------------------- string helpers
NoneVal == <<"<None>">>          \* Python's None, distinct from every string

Range(s) == {s[i] : i \in DOMAIN s}

Strings(alphabet, n) == UNION {[1..k -> alphabet] : k \in 0..n}

\* sep.join(items)
RECURSIVE Join(_, _)
Join(sep, items) ==
    IF items = <<>> THEN <<>>
    ELSE IF Len(items) = 1 THEN items[1]
    ELSE items[1] \o sep \o Join(sep, Tail(items))

\* s.replace(old, new) for a two-character old: leftmost, non-overlapping
RECURSIVE Replace2(_, _, _)
Replace2(s, old, new) ==
    IF Len(s) < 2 THEN s
    ELSE IF s[1] = old[1] /\ s[2] = old[2]
         THEN new \o Replace2(SubSeq(s, 3, Len(s)), old, new)
         ELSE <<s[1]>> \o Replace2(Tail(s), old, new)

HasDotDot(s) == \E i \in 1..(Len(s) - 1) : s[i] = "." /\ s[i + 1] = "."

\* code point of a character (ASCII)
Code(c) ==
    CASE c = "&" -> 38 [] c = "." -> 46 [] c = "/" -> 47 [] c = "1" -> 49
      [] c = "2" -> 50 [] c = ":" -> 58 [] c = "=" -> 61 [] c = "\\" -> 92
      [] c = "_" -> 95 [] c = "a" -> 97 [] c = "b" -> 98 [] c = "s" -> 115
      [] c = "t" -> 116 [] OTHER -> 63

\* Python's str < str : lexicographic by code point
RECURSIVE StrLess(_, _)
StrLess(s, t) ==
    IF t = <<>> THEN FALSE
    ELSE IF s = <<>> THEN TRUE
    ELSE IF s[1] = t[1] THEN StrLess(Tail(s), Tail(t))
    ELSE Code(s[1]) < Code(t[1])

\* ------------------------------------------------- os.path and pathlib
\* os.sep / os.altsep of the platform the app runs on (os.name)
Seps(os_name) == IF os_name = "nt" THEN {"/", "\\"} ELSE {"/"}

HasSep(s, os_name) == \E i \in DOMAIN s : s[i] \in Seps(os_name)

\* index of the first separator of s at a position >= from, 0 if none
FirstSepFrom(s, from, os_name) ==
    LET idx == {i \in DOMAIN s : i >= from /\ s[i] \in Seps(os_name)}
    IN  IF idx = {} THEN 0 ELSE CHOOSE i \in idx : \A j \in idx : i <= j

\* ntpath.splitdrive: the length of the drive prefix of p.  A path that
\* starts with two separators is a UNC path whose drive is \\server\share;
\* otherwise "x:rest" has the drive "x:".  posixpath has no drives.
DriveLen(p, os_name) ==
    IF os_name # "nt" THEN 0
    ELSE IF Len(p) >= 2 /\ p[1] \in Seps(os_name) /\ p[2] \in Seps(os_name)
    THEN LET index == FirstSepFrom(p, 3, os_name)
         IN  IF index = 0 THEN Len(p)
             ELSE LET index2 == FirstSepFrom(p, index + 1, os_name)
                  IN  IF index2 = 0 THEN Len(p) ELSE index2 - 1
    ELSE IF Len(p) >= 2 /\ p[2] = ":" THEN 2
    ELSE 0

Letters == {"a", "b"}

\* pathlib's Windows flavour: a drive is a letter followed by ':'
PathDriveLen(s, os_name) ==
    IF os_name = "nt" /\ Len(s) >= 2 /\ s[2] = ":" /\ s[1] \in Letters
    THEN 2 ELSE 0

\* index of the last separator of s, 0 if none
LastSep(s, os_name) ==
    LET idx == {i \in DOMAIN s : s[i] \in Seps(os_name)}
    IN  IF idx = {} THEN 0 ELSE CHOOSE i \in idx : \A j \in idx : j <= i

\* os.path.basename(p): the part after the drive and the last separator
basename(p, os_name) ==
    LET rest == SubSeq(p, DriveLen(p, os_name) + 1, Len(p))
    IN  SubSeq(rest, LastSep(rest, os_name) + 1, Len(rest))

\* components of s between separators
RECURSIVE SplitSeps(_, _)
SplitSeps(s, os_name) ==
    LET idx == {i \in DOMAIN s : s[i] \in Seps(os_name)}
    IN  IF idx = {} THEN <<s>>
        ELSE LET i == CHOOSE k \in idx : \A j \in idx : k <= j
             IN  <<SubSeq(s, 1, i - 1)>> \o SplitSeps(SubSeq(s, i + 1, Len(s)), os_name)

IsRealPart(c) == c # <<>> /\ c # <<".">>

\* pathlib: backup_dir / name.  The result is anchored at backup_dir unless
\* name carries its own drive or root, which replaces the left operand.
\* Empty and "." components are dropped.
PathJoin(name, os_name) ==
    LET d    == PathDriveLen(name, os_name)
        rest == SubSeq(name, d + 1, Len(name))
        rooted == rest # <<>> /\ rest[1] \in Seps(os_name)
    IN  [anchor |-> IF d > 0 THEN "drive" ELSE IF rooted THEN "root" ELSE "backup_dir",
         parts  |-> SelectSeq(SplitSeps(rest, os_name), IsRealPart)]

\* line 43: os.path.basename(uploaded.name).replace("..", "_")
safe_name(name, os_name) == Replace2(basename(name, os_name), <<".", ".">>, <<"_">>)

\* line 44: backup_dir / safe_name
target_path(name, os_name) == PathJoin(safe_name(name, os_name), os_name)

\* Path.name: the last component
PathName(p) == IF p.parts = <<>> THEN <<>> ELSE p.parts[Len(p.parts)]

\* the path denotes a directory (backup_dir itself, or the root or the
\* current directory of a drive): open(path, "wb") raises
IsDirectory(p) == p.parts = <<>>

\* Windows rejects a file name that contains ':' (open raises OSError)
InvalidFileName(p, os) ==
    os = "nt" /\ \E i \in DOMAIN PathName(p) : PathName(p)[i] = ":"

\* the path denotes an entry directly inside backup_dir
DirectlyInside(p) ==
    p.anchor = "backup_dir" /\ Len(p.parts) = 1 /\ p.parts[1] # <<".", ".">>

\* ------------------------------------------------------------- state
VARIABLES
    os_name,                 \* os.name of the host: "posix" or "nt"
    uploaded_files,          \* st.file_uploader: sequence of [name, bytes]
    recipient_email,         \* st.text_input("Recipient email")
    MAILGUN_API_KEY, MAILGUN_DOMAIN, MAILGUN_SENDER,
    cloudinary_ready, imgbb_ready,
    enable_remote_hosting,   \* the sidebar toggle
    preferred_host,          \* the sidebar selectbox
    pc,                      \* position of main() in the current run
    dir_created,             \* the timestamped backup_dir exists
    disk,                    \* files written in this run: path -> bytes
    saved_paths,             \* save_uploaded_files: saved_paths
    up_i,                    \* paths already visited by the upload loop
    remote_urls,             \* main: remote_urls
    upload_log,              \* every call of an upload_to_* helper
    email_body,              \* main: email_body
    files,                   \* send_via_mailgun: files
    open_handles,            \* file objects opened and not yet closed
    pending_exc,             \* exception in flight inside send_via_mailgun
    http_log,                \* every outbound HTTP request of this run
    mail_parts,              \* the attachment parts of the Mailgun request
    post_status,             \* status code of the Mailgun response, 0 if none
    message,                 \* text of st.error / st.success
    warning,                 \* st.warning was shown
    raisedIn,                \* the step whose exception ended the run
    params, api_secret,      \* arguments of _cloudinary_signature
    signature_base,          \* the string it hashes
    signature                \* its result

inputs == <<os_name, uploaded_files, recipient_email, MAILGUN_API_KEY, MAILGUN_DOMAIN,
            MAILGUN_SENDER, cloudinary_ready, imgbb_ready, enable_remote_hosting,
            preferred_host>>
run    == <<pc, dir_created, disk, saved_paths, up_i, remote_urls, upload_log, email_body,
            files, open_handles, pending_exc, http_log, mail_parts, post_status,
            message, warning, raisedIn>>
sig    == <<params, api_secret, signature_base, signature>>
vars   == <<inputs, run, sig>>

\* ------------------------------------------------------ input domains
FileBytes == {1, 2}
Truncated == 0                       \* content of a file opened "wb" and not written

WorkflowNames == { <<"a">>, <<"a", ".", ".">>, <<"a", "_">> }
BackupAlphabet == {"a", ".", "/", "\\", ":"}

UploadedFile(n, b) == [name |-> n, bytes |-> b]

Recipients == { <<>>, <<" ">>, <<"a", "@", "b">> }
EnvValues == { <<>>, <<"k">> }       \* get_env_any: "" when unset or blank

\* line 193: the options of the selectbox are the ready hosts, or ["none"]
HostOptions(c_ready, i_ready) ==
    LET opts == (IF c_ready THEN {"cloudinary"} ELSE {}) \cup (IF i_ready THEN {"imgbb"} ELSE {})
    IN  IF opts = {} THEN {"none"} ELSE opts

MailgunStatuses == {200, 399, 400, 500}

\* line 173
mg_ready == MAILGUN_API_KEY # <<>> /\ MAILGUN_DOMAIN # <<>> /\ MAILGUN_SENDER # <<>>

EmptyDisk == [p \in {} |-> Truncated]

\* ---------------------------------------------------------- messages
MsgNoFiles     == <<"Please upload at least one image.">>
MsgNoRecipient == <<"Please provide the recipient email address.">>
MsgMailgun     == <<"Mailgun is not configured. Please set MAILGUN_API_KEY, MAILGUN_DOMAIN, MAILGUN_SENDER in your .env.">>
MsgSuccess     == <<"Email sent, backup saved, and uploads (if enabled) completed!">>
ValidationMessages == {MsgNoFiles, MsgNoRecipient, MsgMailgun}

\* str(e) of the exceptions the run can raise
StrOSError == <<"[Errno] OSError">>
StrRequestException == <<"RequestException">>
StrTypeError == <<"sequence item: expected str instance">>
\* line 142
StrMailgunError(status) == <<"Mailgun error ", ToString(status), ": ", "resp.text">>

ExcText(exc, status) ==
    IF exc = "RuntimeError" THEN StrMailgunError(status)
    ELSE IF exc = "RequestException" THEN StrRequestException
    ELSE IF exc = "TypeError" THEN StrTypeError
    ELSE StrOSError

\* lines 271-276: the two handlers of main()
ErrorMessage(exc, status) ==
    IF exc = "RequestException"
    THEN <<"Network error: ">> \o ExcText(exc, status)
    ELSE <<"Failed to complete operation: ">> \o ExcText(exc, status)

\* Validate without the check of mg_ready
ValidateWithoutMailgunCheck(fs, recipient, ready) ==
    IF fs = <<>> THEN MsgNoFiles
    ELSE IF recipient = <<>> THEN MsgNoRecipient
    ELSE <<>>

\* lines 223-231: the message of the first failed check, <<>> if all pass
Validate(fs, recipient, ready) ==
    IF fs = <<>> THEN MsgNoFiles
    ELSE IF recipient = <<>> THEN MsgNoRecipient
    ELSE IF ~ready THEN MsgMailgun
    ELSE <<>>

\* ------------------------------------------------- image host helpers
UrlOf(i) == "https://img/" \o ToString(i)
NoUrl == "<None>"
NonTextUrl == "<int>"      \* a truthy JSON value that is not a string

\* what the host may answer to the upload of file i
HostResponses(i) ==
    { [kind |-> "exception", status |-> 0,   success |-> FALSE, url |-> NoUrl],
      [kind |-> "response",  status |-> 500, success |-> FALSE, url |-> NoUrl],
      [kind |-> "response",  status |-> 200, success |-> FALSE, url |-> NoUrl],
      [kind |-> "response",  status |-> 200, success |-> TRUE,  url |-> UrlOf(i)],
      [kind |-> "response",  status |-> 200, success |-> TRUE,  url |-> NonTextUrl] }

Returned(u) == [raised |-> FALSE, url |-> u]

\* upload_to_cloudinary without the except clause
upload_to_cloudinary_unguarded(resp) ==
    IF resp.kind = "exception" THEN [raised |-> TRUE, url |-> NoUrl]
    ELSE IF resp.status = 200 THEN Returned(resp.url)
    ELSE Returned(NoUrl)

\* lines 83-98: secure_url of a 200 response, None otherwise or on any exception
upload_to_cloudinary(resp) ==
    IF resp.kind = "exception" THEN Returned(NoUrl)
    ELSE IF resp.status = 200 THEN Returned(resp.url)
    ELSE Returned(NoUrl)

\* lines 103-112: data.url of a successful 200 response, None otherwise
upload_to_imgbb(resp) ==
    IF resp.kind = "exception" THEN Returned(NoUrl)
    ELSE IF resp.status = 200 /\ resp.success THEN Returned(resp.url)
    ELSE Returned(NoUrl)

\* Uploader that takes the first ready host, whatever the selectbox says
UploaderFirstReady(preferred, c_ready, i_ready) ==
    IF c_ready THEN "cloudinary"
    ELSE IF i_ready THEN "imgbb"
    ELSE "none"

\* lines 244-253: the helper the loop calls for one path
Uploader(preferred, c_ready, i_ready) ==
    IF preferred = "cloudinary" /\ c_ready THEN "cloudinary"
    ELSE IF preferred = "imgbb" /\ i_ready THEN "imgbb"
    ELSE "none"

\* line 254: if url
Truthy(u) == u # NoUrl /\ u # ""

\* line 258: "\n".join raises TypeError on an item that is not a string
JoinRaises(urls) == \E i \in DOMAIN urls : urls[i] = NonTextUrl

\* line 258
url_block(urls) ==
    IF urls # <<>>
    THEN <<"\n\nLinks:\n">> \o Join(<<"\n">>, [i \in DOMAIN urls |-> <<urls[i]>>])
    ELSE <<>>

\* line 259
ComposeBody(urls, paths) ==
    <<"body">> \o url_block(urls)
      \o <<"\n\nTotal attachments: ", ToString(Len(paths)), "\nBackup folder: ", "backup_folder">>

\* the status check with > in place of >=
MailgunRejectsAbove400(status) == status > 400

\* line 141
MailgunRejects(status) == status >= 400

\* the handles closed when the loop sits in an else clause, not in finally
ClosedOnlyOnSuccess(fs, exc) == IF exc = "none" THEN {fs[k].fh : k \in DOMAIN fs} ELSE {}

\* lines 143-148: the handles the finally block closes
ClosedByFinally(fs, exc) == {fs[k].fh : k \in DOMAIN fs}

\* line 281
ShowWarning(enabled, urls) == enabled /\ urls = <<>>

\* --------------------------------------------------------- the run
FreshRun ==
    /\ pc = "Idle"
    /\ dir_created = FALSE
    /\ disk = EmptyDisk
    /\ saved_paths = <<>>
    /\ up_i = 0
    /\ remote_urls = <<>>
    /\ upload_log = <<>>
    /\ email_body = <<>>
    /\ files = <<>>
    /\ open_handles = {}
    /\ pending_exc = "none"
    /\ http_log = <<>>
    /\ mail_parts = <<>>
    /\ post_status = 0
    /\ message = <<>>
    /\ warning = FALSE
    /\ raisedIn = "none"

NoSignature == [alg |-> "none", input |-> <<>>]

SigIdle ==
    /\ params = <<>>
    /\ api_secret = <<>>
    /\ signature_base = <<>>
    /\ signature = NoSignature

FileLists == UNION {[1..n -> {UploadedFile(nm, b) : nm \in WorkflowNames, b \in FileBytes}] : n \in 0..MaxFiles}

FormInputs ==
    /\ os_name = "posix"
    /\ uploaded_files \in FileLists
    /\ recipient_email \in Recipients
    /\ MAILGUN_API_KEY \in EnvValues
    /\ MAILGUN_DOMAIN \in EnvValues
    /\ MAILGUN_SENDER \in EnvValues
    /\ cloudinary_ready \in BOOLEAN
    /\ imgbb_ready \in BOOLEAN
    /\ enable_remote_hosting \in BOOLEAN
    /\ preferred_host \in HostOptions(cloudinary_ready, imgbb_ready)

Init == FormInputs /\ FreshRun /\ SigIdle

Terminal == {"Succeeded", "Failed", "Crashed"}

\* lines 271-276: an exception of the try block ends the run in Failed
Fail(exc, status, step) ==
    /\ pc' = "Failed"
    /\ message' = ErrorMessage(exc, status)
    /\ raisedIn' = step

\* lines 221-231: the button is clicked, the inputs are validated
Click ==
    /\ pc = "Idle"
    /\ LET m == Validate(uploaded_files, recipient_email, mg_ready)
       IN  IF m # <<>>
           THEN pc' = "Failed" /\ message' = m
           ELSE pc' = "Resolve" /\ UNCHANGED message
    /\ UNCHANGED <<inputs, sig, dir_created, disk, saved_paths, up_i, remote_urls, upload_log,
                   email_body, files, open_handles, pending_exc, http_log, mail_parts,
                   post_status, warning, raisedIn>>

\* line 233: Path(backup_base).expanduser().resolve(), outside the try block
ResolveBaseDir ==
    /\ pc = "Resolve"
    /\ \E ok \in BOOLEAN :
          IF ok THEN pc' = "MkDir" /\ UNCHANGED raisedIn
          ELSE pc' = "Crashed" /\ raisedIn' = "resolve"
    /\ UNCHANGED <<inputs, sig, dir_created, disk, saved_paths, up_i, remote_urls, upload_log,
                   email_body, files, open_handles, pending_exc, http_log, mail_parts,
                   post_status, message, warning>>

\* line 241: the step after save_uploaded_files returns
AfterSave(paths) == IF enable_remote_hosting /\ paths # <<>> THEN "Upload" ELSE "Compose"

\* lines 37-39: ensure_directory_exists(backup_dir)
EnsureDirectory ==
    /\ pc = "MkDir"
    /\ \E ok \in BOOLEAN :
          IF ok
          THEN /\ dir_created' = TRUE
               /\ pc' = IF uploaded_files = <<>> THEN AfterSave(<<>>) ELSE "Save"
               /\ UNCHANGED <<message, raisedIn>>
          ELSE /\ Fail("OSError", 0, "backup")
               /\ UNCHANGED dir_created
    /\ UNCHANGED <<inputs, sig, disk, saved_paths, up_i, remote_urls, upload_log,
                   email_body, files, open_handles, pending_exc, http_log, mail_parts,
                   post_status, warning>>

\* lines 42-47: one iteration of the loop of save_uploaded_files
SaveFile ==
    /\ pc = "Save"
    /\ LET i  == Len(saved_paths) + 1
           tp == target_path(uploaded_files[i].name, os_name)
       IN  \E outcome \in {"written", "open fails", "write fails"} :
              /\ (IsDirectory(tp) \/ InvalidFileName(tp, os_name)) => outcome = "open fails"
              /\ IF outcome = "written"
                 THEN /\ disk' = (tp :> uploaded_files[i].bytes) @@ disk
                      /\ saved_paths' = Append(saved_paths, tp)
                      /\ pc' = IF i = Len(uploaded_files)
                               THEN AfterSave(saved_paths') ELSE "Save"
                      /\ UNCHANGED <<message, raisedIn>>
                 ELSE /\ disk' = IF outcome = "write fails"
                                 THEN (tp :> Truncated) @@ disk ELSE disk
                      /\ Fail("OSError", 0, "backup")
                      /\ UNCHANGED saved_paths
    /\ UNCHANGED <<inputs, sig, dir_created, up_i, remote_urls, upload_log,
                   email_body, files, open_handles, pending_exc, http_log, mail_parts,
                   post_status, warning>>

\* lines 242-255: one iteration of the upload loop
UploadFile ==
    /\ pc = "Upload"
    /\ LET k    == up_i + 1
           host == Uploader(preferred_host, cloudinary_ready, imgbb_ready)
           next == IF k = Len(saved_paths) THEN "Compose" ELSE "Upload"
       IN  IF host = "none"
           THEN /\ up_i' = k
                /\ pc' = next
                /\ UNCHANGED <<remote_urls, upload_log, http_log, message, raisedIn>>
           ELSE \E resp \in HostResponses(k) :
                   LET r == IF host = "cloudinary"
                            THEN upload_to_cloudinary(resp) ELSE upload_to_imgbb(resp)
                   IN  /\ upload_log' = Append(upload_log,
                              [index |-> k, path |-> saved_paths[k], host |-> host,
                               returned |-> r.url])
                       /\ http_log' = Append(http_log, host)
                       /\ IF r.raised
                          THEN /\ Fail("Exception", 0, "upload")
                               /\ UNCHANGED <<up_i, remote_urls>>
                          ELSE /\ remote_urls' = IF Truthy(r.url)
                                                 THEN Append(remote_urls, r.url)
                                                 ELSE remote_urls
                               /\ up_i' = k
                               /\ pc' = next
                               /\ UNCHANGED <<message, raisedIn>>
    /\ UNCHANGED <<inputs, sig, dir_created, disk, saved_paths, email_body, files,
                   open_handles, pending_exc, mail_parts, post_status, warning>>

\* lines 258-259, and the entry of send_via_mailgun (lines 127-135)
Compose ==
    /\ pc = "Compose"
    /\ IF JoinRaises(remote_urls)
       THEN /\ Fail("TypeError", 0, "compose")
            /\ UNCHANGED email_body
       ELSE /\ email_body' = ComposeBody(remote_urls, saved_paths)
            /\ pc' = IF saved_paths = <<>> THEN "Post" ELSE "Open"
            /\ UNCHANGED <<message, raisedIn>>
    /\ UNCHANGED <<inputs, sig, dir_created, disk, saved_paths, up_i, remote_urls, upload_log,
                   files, open_handles, pending_exc, http_log, mail_parts, post_status,
                   warning>>

\* lines 137-139: one iteration of the loop that opens the attachments
OpenAttachment ==
    /\ pc = "Open"
    /\ LET k == Len(files) + 1
           p == saved_paths[k]
       IN  \E ok \in BOOLEAN :
              IF ok
              THEN /\ files' = Append(files, [name |-> PathName(p), path |-> p, fh |-> k])
                   /\ open_handles' = open_handles \cup {k}
                   /\ pc' = IF k = Len(saved_paths) THEN "Post" ELSE "Open"
                   /\ UNCHANGED pending_exc
              ELSE /\ pending_exc' = "OSError"
                   /\ pc' = "Finally"
                   /\ UNCHANGED <<files, open_handles>>
    /\ UNCHANGED <<inputs, sig, dir_created, disk, saved_paths, up_i, remote_urls, upload_log,
                   email_body, http_log, mail_parts, post_status, message, warning, raisedIn>>

\* what requests reads from the open handles: one part per entry of files
Parts(fs, d) == [k \in DOMAIN fs |-> [filename |-> fs[k].name, bytes |-> d[fs[k].path]]]

\* lines 140-142: the single POST to Mailgun and the status check
Post ==
    /\ pc = "Post"
    /\ http_log' = Append(http_log, "mailgun")
    /\ mail_parts' = Parts(files, disk)
    /\ \/ /\ pending_exc' = "RequestException"
          /\ UNCHANGED post_status
       \/ \E status \in MailgunStatuses :
             /\ post_status' = status
             /\ pending_exc' = IF MailgunRejects(status) THEN "RuntimeError" ELSE "none"
    /\ pc' = "Finally"
    /\ UNCHANGED <<inputs, sig, dir_created, disk, saved_paths, up_i, remote_urls, upload_log,
                   email_body, files, open_handles, message, warning, raisedIn>>

\* lines 143-148: the finally block; then the exception, if any, reaches
\* the handlers of main() (lines 271-276)
Finally ==
    /\ pc = "Finally"
    /\ open_handles' = open_handles \ ClosedByFinally(files, pending_exc)
    /\ IF pending_exc = "none"
       THEN pc' = "Report" /\ UNCHANGED <<message, raisedIn>>
       ELSE Fail(pending_exc, post_status, "send")
    /\ UNCHANGED <<inputs, sig, dir_created, disk, saved_paths, up_i, remote_urls, upload_log,
                   email_body, files, pending_exc, http_log, mail_parts, post_status, warning>>

\* lines 278-282
Report ==
    /\ pc = "Report"
    /\ pc' = "Succeeded"
    /\ message' = MsgSuccess
    /\ warning' = ShowWarning(enable_remote_hosting, remote_urls)
    /\ UNCHANGED <<inputs, sig, dir_created, disk, saved_paths, up_i, remote_urls, upload_log,
                   email_body, files, open_handles, pending_exc, http_log, mail_parts,
                   post_status, raisedIn>>

\* Streamlit runs main() again on the next interaction; the widgets keep
\* their values, and a click a second later uses a new timestamped folder
Rerun ==
    /\ pc \in Terminal
    /\ pc' = "Idle"
    /\ dir_created' = FALSE
    /\ disk' = EmptyDisk
    /\ saved_paths' = <<>>
    /\ up_i' = 0
    /\ remote_urls' = <<>>
    /\ upload_log' = <<>>
    /\ email_body' = <<>>
    /\ files' = <<>>
    /\ open_handles' = {}
    /\ pending_exc' = "none"
    /\ http_log' = <<>>
    /\ mail_parts' = <<>>
    /\ post_status' = 0
    /\ message' = <<>>
    /\ warning' = FALSE
    /\ raisedIn' = "none"
    /\ UNCHANGED <<inputs, sig>>

Next ==
    \/ Click
    \/ ResolveBaseDir
    \/ EnsureDirectory
    \/ SaveFile
    \/ UploadFile
    \/ Compose
    \/ OpenAttachment
    \/ Post
    \/ Finally
    \/ Report
    \/ Rerun

Spec == Init /\ [][Next]_vars

\* ------------------------------------------------ the backup writer
\* save_uploaded_files on one file whose name is any string over
\* BackupAlphabet, on either platform
BackupNames == Strings(BackupAlphabet, MaxNameLen)

InitBackup ==
    /\ os_name \in {"posix", "nt"}
    /\ uploaded_files \in {<<UploadedFile(nm, 1)>> : nm \in BackupNames}
    /\ recipient_email = <<"a", "@", "b">>
    /\ MAILGUN_API_KEY = <<"k">>
    /\ MAILGUN_DOMAIN = <<"k">>
    /\ MAILGUN_SENDER = <<"k">>
    /\ cloudinary_ready = FALSE
    /\ imgbb_ready = FALSE
    /\ enable_remote_hosting = FALSE
    /\ preferred_host = "none"
    /\ FreshRun
    /\ SigIdle

NextBackup ==
    \/ Click
    \/ ResolveBaseDir
    \/ EnsureDirectory
    \/ SaveFile

SpecBackup == InitBackup /\ [][NextBackup]_vars

\* --------------------------------------------- _cloudinary_signature
SigKeys == { <<"a">>, <<"b">>, <<"a", "b">> }
SigValues == { NoneVal, <<>>, <<"1">>, <<"2">> }
Secrets == { <<"s">>, <<"t">> }

Entry(k, v) == [k |-> k, v |-> v]
Keys(ps) == {ps[i].k : i \in DOMAIN ps}

\* a dict in insertion order: a sequence of entries with distinct keys
Dicts(n) ==
    UNION { {ps \in [1..m -> {Entry(k, v) : k \in SigKeys, v \in SigValues}] :
                \A i, j \in 1..m : i # j => ps[i].k # ps[j].k} : m \in 0..n }

\* d[k]
Lookup(ps, k) == ps[CHOOSE i \in DOMAIN ps : ps[i].k = k].v

\* line 70: v not in (None, "")
KeepsEntry(e) == e.v # NoneVal /\ e.v # <<>>
DropsNone(e) == e.v # NoneVal
\* the filter with "is not None" in place of "not in (None, '')"
filteredNoneOnly(ps) == SelectSeq(ps, DropsNone)
filtered(ps) == SelectSeq(ps, KeepsEntry)

\* sorted(keys): insertion into an ascending sequence
RECURSIVE InsertSorted(_, _)
InsertSorted(k, ks) ==
    IF ks = <<>> THEN <<k>>
    ELSE IF StrLess(k, ks[1]) THEN <<k>> \o ks
    ELSE <<ks[1]>> \o InsertSorted(k, Tail(ks))

RECURSIVE sorted(_)
sorted(ks) == IF ks = <<>> THEN <<>> ELSE InsertSorted(ks[1], sorted(Tail(ks)))

\* line 71
SignatureBase(ps, secret) ==
    LET f  == filtered(ps)
        ks == sorted([i \in DOMAIN f |-> f[i].k])
    IN  Join(<<"&">>, [i \in DOMAIN ks |-> ks[i] \o <<"=">> \o Lookup(f, ks[i])]) \o secret

\* str.encode("utf-8") of an ASCII string
Utf8(str) == [i \in DOMAIN str |-> Code(str[i])]

\* hashlib.sha1(data).hexdigest(): an uninterpreted, collision-free digest
Sha1Hex(data) == [alg |-> "sha1", input |-> data]

\* lines 70-72
cloudinary_signature(ps, secret) == Sha1Hex(Utf8(SignatureBase(ps, secret)))

InitSignature ==
    /\ os_name = "posix"
    /\ uploaded_files = <<>>
    /\ recipient_email = <<>>
    /\ MAILGUN_API_KEY = <<>>
    /\ MAILGUN_DOMAIN = <<>>
    /\ MAILGUN_SENDER = <<>>
    /\ cloudinary_ready = TRUE
    /\ imgbb_ready = FALSE
    /\ enable_remote_hosting = TRUE
    /\ preferred_host = "cloudinary"
    /\ FreshRun
    /\ params \in Dicts(MaxParams)
    /\ api_secret \in Secrets
    /\ signature_base = <<>>
    /\ signature = NoSignature

Signs(ps) ==
    /\ params' = ps
    /\ signature_base' = SignatureBase(ps, api_secret)
    /\ signature' = cloudinary_signature(ps, api_secret)
    /\ UNCHANGED <<api_secret, inputs, run>>

\* the first call
Sign ==
    /\ signature = NoSignature
    /\ Signs(params)

\* a call with the same entries inserted in another order
SignReordered ==
    /\ signature # NoSignature
    /\ \E q \in Permutations(DOMAIN params) :
          /\ \E i \in DOMAIN params : q[i] # i
          /\ Signs([i \in DOMAIN params |-> params[q[i]]])

\* a call with one more entry whose value is empty or None, at any position
SignWithEmptyEntry ==
    /\ signature # NoSignature
    /\ Len(params) < MaxParams
    /\ \E k \in SigKeys \ Keys(params), v \in {NoneVal, <<>>}, pos \in 0..Len(params) :
          Signs(SubSeq(params, 1, pos) \o <<Entry(k, v)>> \o SubSeq(params, pos + 1, Len(params)))

\* a call without one of the entries whose value is empty or None
SignWithoutEmptyEntry ==
    /\ signature # NoSignature
    /\ \E i \in DOMAIN params :
          /\ ~KeepsEntry(params[i])
          /\ Signs(SubSeq(params, 1, i - 1) \o SubSeq(params, i + 1, Len(params)))

NextSignature ==
    \/ Sign
    \/ SignReordered
    \/ SignWithEmptyEntry
    \/ SignWithoutEmptyEntry

SpecSignature == InitSignature /\ [][NextSignature]_vars

\* ============================================================ claims
NoIO == ~dir_created /\ disk = EmptyDisk /\ http_log = <<>>

Count(log, x) == Cardinality({i \in DOMAIN log : log[i] = x})

\* C1: a submission with no uploaded file, or with Mailgun credentials not
\* ready, ends in Failed with a validation message, and neither the backup
\* directory, nor a file, nor an HTTP call is made on the way.
C1_InvalidSubmissionFailsWithoutIO ==
    (pc # "Idle" /\ (uploaded_files = <<>> \/ ~mg_ready)) =>
        /\ pc = "Failed"
        /\ message \in ValidationMessages
        /\ NoIO

C1_Witness ==
    /\ pc = "Failed"
    /\ uploaded_files # <<>>
    /\ recipient_email # <<>>
    /\ ~mg_ready
    /\ message = MsgMailgun

Blank(str) == \A i \in DOMAIN str : str[i] = " "

\* C2: a submission whose recipient is blank (empty or only whitespace),
\* with a file uploaded and Mailgun ready, ends in Failed at validation, with
\* no backup write, host upload or Mailgun send.
C2_BlankRecipientFailsValidation ==
    (pc # "Idle" /\ Blank(recipient_email) /\ uploaded_files # <<>> /\ mg_ready) =>
        /\ pc = "Failed"
        /\ message \in ValidationMessages
        /\ NoIO

\* C3: the Mailgun send is attempted at most once per submission, and a
\* response with status >= 400 ends the submission in Failed, never in
\* Succeeded, with a message that contains the status code.
C3_MailgunRejectionFails ==
    /\ Count(http_log, "mailgun") <= 1
    /\ post_status >= 400 =>
          /\ pc \in {"Finally", "Failed"}
          /\ pc = "Failed" => ToString(post_status) \in Range(message)

C3_Witness ==
    /\ pc = "Failed"
    /\ post_status = 400
    /\ Count(http_log, "mailgun") = 1
    /\ ToString(400) \in Range(message)

PassedValidation == message \notin ValidationMessages

\* C4, as stated: every run that passed validation (here with a recipient
\* that is not blank) and ends in Failed is one in which the Mailgun send
\* step failed.
C4_OnlySendFails ==
    (pc = "Failed" /\ PassedValidation /\ ~Blank(recipient_email)) => raisedIn = "send"

\* C4, amended: every run that passed validation and ends in Failed is one in
\* which the backup write or the Mailgun send step failed, or in which the
\* body could not be composed because a host returned a URL that is not
\* text; a failed host upload never ends the run.
C4_OnlyBackupOrSendFails ==
    /\ (pc = "Failed" /\ PassedValidation) =>
          \/ raisedIn \in {"backup", "send"}
          \/ raisedIn = "compose" /\ JoinRaises(remote_urls)
    /\ raisedIn # "upload"
    /\ (pc = "Failed" /\ raisedIn = "backup") => http_log = <<>>

C4_Witness ==
    /\ pc = "Failed"
    /\ raisedIn = "backup"
    /\ dir_created
    /\ PassedValidation

DistinctTargets == \A i, j \in DOMAIN saved_paths : i # j => saved_paths[i] # saved_paths[j]

\* C5: a run that ends in Succeeded with remote hosting enabled and a ready
\* provider shows a warning whenever fewer URLs were returned than uploads
\* attempted (here for files saved under distinct names).
C5_WarnsOnCountMismatch ==
    (/\ pc = "Succeeded"
     /\ ~Blank(recipient_email)
     /\ DistinctTargets
     /\ enable_remote_hosting
     /\ preferred_host # "none"
     /\ Len(remote_urls) < Len(upload_log)) => warning

\* C6: whenever the Mailgun send is made, it has one attachment per uploaded
\* file, in upload order, and attachment i carries the bytes of uploaded file i.
C6_AttachmentsAreOriginalBytes ==
    (Count(http_log, "mailgun") > 0 /\ ~Blank(recipient_email)) =>
        /\ Len(mail_parts) = Len(uploaded_files)
        /\ \A i \in DOMAIN mail_parts : mail_parts[i].bytes = uploaded_files[i].bytes

UploadLoopDone ==
    \/ pc \in {"Compose", "Open", "Post", "Finally", "Report", "Succeeded"}
    \/ pc = "Failed" /\ raisedIn = "send"

IsUrl(t) == \E i \in 1..Len(uploaded_files) : t = UrlOf(i)
IsReturnedUrl(e) == Truthy(e.returned)
ReturnedUrls ==
    LET ok == SelectSeq(upload_log, IsReturnedUrl)
    IN  [i \in DOMAIN ok |-> ok[i].returned]

\* C7: each saved file gets exactly one upload attempt, through the preferred
\* provider; the links of the email body are the URLs the successful attempts
\* returned, in input order; the "Links:" section is present iff there is a
\* link; no attempt is made when hosting is disabled or no provider is ready.
C7_OneAttemptPerFileLinksInOrder ==
    /\ \A j, k \in DOMAIN upload_log : j < k => upload_log[j].index < upload_log[k].index
    /\ \A k \in DOMAIN upload_log :
          /\ upload_log[k].host = preferred_host
          /\ upload_log[k].path = saved_paths[upload_log[k].index]
    /\ Len(upload_log) = Count(http_log, "cloudinary") + Count(http_log, "imgbb")
    /\ (~enable_remote_hosting \/ preferred_host = "none") => upload_log = <<>>
    /\ UploadLoopDone =>
          /\ (enable_remote_hosting /\ preferred_host # "none") =>
                Len(upload_log) = Len(saved_paths)
          /\ remote_urls = ReturnedUrls
    /\ email_body # <<>> =>
          /\ SelectSeq(email_body, IsUrl) = remote_urls
          /\ ("\n\nLinks:\n" \in Range(email_body)) <=> (remote_urls # <<>>)

C7_Witness ==
    /\ pc = "Succeeded"
    /\ preferred_host = "imgbb"
    /\ cloudinary_ready
    /\ Len(upload_log) = 2
    /\ Len(remote_urls) = 1
    /\ remote_urls[1] = UrlOf(2)
    /\ "\n\nLinks:\n" \in Range(email_body)

Covered(nm) == HasDotDot(nm) \/ HasSep(nm, os_name)

\* C8: for every uploaded filename that contains ".." or a path separator,
\* the name the file is written under contains no ".." and no directory
\* component, and the file written lies directly inside the backup directory.
C8_SanitizedWriteStaysInside ==
    \A i \in DOMAIN saved_paths :
        Covered(uploaded_files[i].name) =>
            /\ ~HasDotDot(safe_name(uploaded_files[i].name, os_name))
            /\ ~HasSep(safe_name(uploaded_files[i].name, os_name), os_name)
            /\ saved_paths[i] \in DOMAIN disk
            /\ DirectlyInside(saved_paths[i])

KeptKeys(ps) == {ps[i].k : i \in {j \in DOMAIN ps : ps[j].v # NoneVal /\ ps[j].v # <<>>}}

\* the key=value pairs of the entries with a value, by ascending key,
\* joined with '&', then the secret
CanonicalBase(ps, secret) ==
    LET K == KeptKeys(ps)
        n == Cardinality(K)
        order == CHOOSE f \in [1..n -> K] : \A i, j \in 1..n : i < j => StrLess(f[i], f[j])
    IN  Join(<<"&">>, [i \in 1..n |-> order[i] \o <<"=">> \o Lookup(ps, order[i])]) \o secret

\* C9: the string hashed is the key=value pairs of the entries whose value is
\* neither empty nor None, ordered by key and joined with '&', followed by
\* the secret; mappings that differ only in insertion order or in entries
\* without a value have the same signature.
C9_SignatureCanonical ==
    /\ [](signature # NoSignature =>
            /\ signature_base = CanonicalBase(params, api_secret)
            /\ signature = Sha1Hex(Utf8(signature_base)))
    /\ [][(signature # NoSignature /\ KeptKeys(params') = KeptKeys(params)
            /\ \A k \in KeptKeys(params) : Lookup(params', k) = Lookup(params, k))
          => signature' = signature]_vars

C9_Witness ==
    /\ signature # NoSignature
    /\ Len(params) = 2
    /\ params[1].k = <<"b">> /\ params[1].v = <<"1">>
    /\ params[2].k = <<"a", "b">> /\ params[2].v = <<>>
    /\ signature_base = <<"b", "=", "1">> \o api_secret

\* C10: every file handle send_via_mailgun opens is closed when it exits, on
\* every exit path, so none is open when the run is Succeeded or Failed.
C10_HandlesClosedOnExit ==
    /\ open_handles \subseteq {files[k].fh : k \in DOMAIN files}
    /\ pc \in {"Report", "Succeeded", "Failed"} => open_handles = {}

C10_Witness ==
    /\ pc = "Failed"
    /\ raisedIn = "send"
    /\ message = ErrorMessage("OSError", 0)
    /\ Len(files) >= 1
    /\ Len(files) < Len(saved_paths)
    /\ open_handles = {}

====
